---- MODULE Spec2Model ----
(***************************************************************************)
(* The chat session controller of the frontend: the useChatbot hook with   *)
(* the WebSocket transport (useWebSocket) and its HTTP fallback.           *)
(*                                                                         *)
(* React state is modelled as it behaves: the setters a handler calls      *)
(* update the hook state in one step; a later Render step commits it, and  *)
(* only then do closures (sendMessage's isConnected and messages) and      *)
(* effect dependencies see the new values.  Render runs the effects of the *)
(* commit in the order the hook declares them; their setters are           *)
(* functional or constant, so they act on the hook state of that moment.   *)
(***************************************************************************)
EXTENDS Naturals, Sequences, FiniteSets

(* ----------------------------- bounds ---------------------------------- *)
\* calls of sendMessage / generateBrowserUse in one behaviour
MaxCalls == 2

(* ----------------------------- values ---------------------------------- *)
Null == "null"
Absent == "absent"
USER == "user"
AI == "ai"

UserTexts == {"hi"}
ActionDescriptions == {"act"}
Contents == {"hello"}
ServerErrors == {"boom"}
\* plans a browser_use_plan frame or the plan endpoint returns, and plans a chat reply carries
Plans == {"P1"}
ChatPlans == {"P2"}

ErrConnection == "WebSocket connection error"
ErrParse == "Failed to parse message from server"
ErrNotConnected == "WebSocket is not connected"

\* a message text is a sequence of string pieces (template literals keep their
\* parts, streamed text its characters); the empty string has no piece
Plain(s) == IF s = "" THEN <<>> ELSE <<s>>
ErrorText(m) == <<"Error: ", m>>
ConnectionErrorText(e) == <<"Connection error: ", e, ". Falling back to HTTP.">>
NoResponseText == <<"Error: No response from server">>

Msg(t, s) == [text |-> t, sender |-> s]
DEFAULT_MESSAGE == Msg(Plain(""), AI)

\* a parsed inbound frame; id is the identity of the parsed object, re the
\* call it answers (0: none)
Frame(i, r, ty, c, nmi, bup, p, m) ==
    [id |-> i, re |-> r, type |-> ty, content |-> c, needs_more_info |-> nmi,
     browser_use_plan |-> bup, plan |-> p, message |-> m]
NoFrame == Frame(0, 0, Null, Absent, FALSE, Absent, Absent, Absent)

\* the texts the chunks of a streamed response body decode to
Hel == <<"H", "e", "l">>
LoSpace == <<"l", "o", " ">>
SpaceWorld == <<" ", "w", "o", "r", "l", "d">>
\* the streamed response bodies: no chunk at all, one chunk that decodes to the
\* empty string (a byte order mark), and three chunks of text
StreamBodies == {<<>>, <<Plain("")>>, <<Hel, LoSpace, SpaceWorld>>}

\* payloads the service may send without a request, of which a behaviour has
\* at most one: one that parses to a frame of no known type, one that is not JSON
UnsolicitedPayloads == {"unknown", "not_json"}

\* websocket_test.html as parsed, before the load event: no socket, the
\* texts of the markup
TestPage ==
    [loaded |-> FALSE, sockets |-> <<>>, timers |-> 0, errors |-> 0,
     connectionStatus |-> "WebSocket: Disconnected",
     chatHistory |-> <<>>, chatResponse |-> <<"No response yet">>,
     actionResponse |-> <<"No response yet">>, sent |-> {}, clicks |-> 0]

VARIABLES
    readyState,      \* the socket: CONNECTING, OPEN, CLOSING, CLOSED
    isConnected,     \* useWebSocket state
    lastMessage,     \* useWebSocket state
    error,           \* useWebSocket state
    messages,        \* useChatbot state: the conversation log
    currMessage,     \* useChatbot state: the draft
    isGenerating,    \* useChatbot state: busy
    browserUsePlan,  \* useChatbot state: the plan
    rendered,        \* the values the last commit gave closures and effect deps
    mounted,         \* the component that calls the hook is mounted
    panelController, \* the plan panel has called useChatbot of its own
    wire,            \* frames written to the socket and not answered (at: the
                     \* length of the log when the call was made)
    http,            \* fetch requests not completed (at: as for wire)
    inFlight,        \* calls started and without terminal outcome so far
    calls,           \* number of sendMessage / generateBrowserUse calls
    unsolicited,     \* payloads the service may still send unasked
    testClient       \* websocket_test.html: the script's variables, its sockets
                     \* and timers, and the texts of the page

transport == <<readyState, isConnected, lastMessage, error>>
session == <<messages, currMessage, isGenerating, browserUsePlan>>
react == <<rendered, mounted, panelController>>
network == <<wire, http, inFlight, calls, unsolicited, testClient>>
vars == <<transport, session, react, network>>

Snapshot == [isConnected |-> isConnected, lastMessage |-> lastMessage,
             error |-> error, messages |-> messages]

Init ==
    /\ readyState = "CONNECTING"
    /\ isConnected = FALSE
    /\ lastMessage = NoFrame
    /\ error = Null
    /\ messages = <<>>
    /\ currMessage = DEFAULT_MESSAGE
    /\ isGenerating = FALSE
    /\ browserUsePlan = Null
    /\ rendered = [isConnected |-> FALSE, lastMessage |-> NoFrame,
                   error |-> Null, messages |-> <<>>]
    /\ mounted = TRUE
    /\ panelController = FALSE
    /\ wire = {}
    /\ http = {}
    /\ inFlight = {}
    /\ calls = 0
    /\ unsolicited = UnsolicitedPayloads
    /\ testClient = TestPage

(* --------------------------- useWebSocket ------------------------------ *)
\* a state setter: React drops the update once the component has unmounted
SetState(cur, new) == IF mounted THEN new ELSE cur

\* socket.onopen
SocketOpen ==
    /\ readyState = "CONNECTING"
    /\ readyState' = "OPEN"
    /\ isConnected' = SetState(isConnected, TRUE)
    /\ error' = SetState(error, Null)
    /\ UNCHANGED <<lastMessage, session, react, network>>

\* the closing handshake starts: readyState changes, no event fires yet
SocketClosing ==
    /\ readyState = "OPEN"
    /\ readyState' = "CLOSING"
    /\ UNCHANGED <<isConnected, lastMessage, error, session, react, network>>

\* the connection closes cleanly: socket.onclose
SocketClose ==
    /\ readyState \in {"OPEN", "CLOSING"}
    /\ readyState' = "CLOSED"
    /\ isConnected' = SetState(isConnected, FALSE)
    /\ UNCHANGED <<lastMessage, error, session, react, network>>

\* a failure whose handlers set the error and leave isConnected as it is
SocketFailKeepsConnected ==
    /\ readyState \in {"CONNECTING", "OPEN", "CLOSING"}
    /\ readyState' = "CLOSED"
    /\ error' = SetState(error, ErrConnection)
    /\ UNCHANGED <<isConnected, lastMessage, session, react, network>>

\* the connection fails: socket.onerror, then socket.onclose, in one task
SocketFail ==
    /\ readyState \in {"CONNECTING", "OPEN", "CLOSING"}
    /\ readyState' = "CLOSED"
    /\ error' = SetState(error, ErrConnection)
    /\ isConnected' = SetState(isConnected, FALSE)
    /\ UNCHANGED <<lastMessage, session, react, network>>

\* JSON.parse returns a new object: one that is neither the lastMessage in the
\* hook state nor the one of the last commit
FreshId == CHOOSE i \in 1..3 : i \notin {lastMessage.id, rendered.lastMessage.id}

\* socket.onmessage with a payload that parses
OnMessageParsed(f) ==
    /\ lastMessage' = SetState(lastMessage, f)
    /\ UNCHANGED <<readyState, isConnected, error>>

\* socket.onmessage with a payload JSON.parse rejects
OnMessageUnparsable ==
    /\ error' = SetState(error, ErrParse)
    /\ UNCHANGED <<readyState, isConnected, lastMessage>>

\* a send that also writes while the closing handshake runs
SocketWritesUnlessClosed == readyState \in {"OPEN", "CLOSING"}

\* useWebSocket.sendMessage: TRUE when the frame is written to the socket
SocketWrites == readyState = "OPEN"

\* the component unmounts: the cleanup of the connection effect closes the
\* socket when it is open and leaves it alone otherwise; nothing aborts a
\* fetch and no handler is detached
Unmount ==
    /\ mounted
    /\ mounted' = FALSE
    /\ panelController' = FALSE
    /\ readyState' = IF readyState = "OPEN" THEN "CLOSING" ELSE readyState
    /\ UNCHANGED <<isConnected, lastMessage, error, session, rendered, network>>


(* ------------------------ useChatbot: pure parts ----------------------- *)
Session == [messages |-> messages, currMessage |-> currMessage,
            isGenerating |-> isGenerating, browserUsePlan |-> browserUsePlan]

SetSession(s) ==
    /\ messages' = SetState(messages, s.messages)
    /\ currMessage' = SetState(currMessage, s.currMessage)
    /\ isGenerating' = SetState(isGenerating, s.isGenerating)
    /\ browserUsePlan' = SetState(browserUsePlan, s.browserUsePlan)

\* JavaScript truthiness of an optional plan field
Truthy(v) == v \notin {Absent, Null}

\* Dispatch with the plan set from every chat_response, carried or not
DispatchSetsPlanAlways(s, f) ==
    IF f = NoFrame THEN s
    ELSE IF f.type = "chat_response" THEN
        [s EXCEPT !.messages = Append(@, Msg(Plain(f.content), AI)),
                  !.browserUsePlan = f.browser_use_plan,
                  !.isGenerating = FALSE]
    ELSE IF f.type = "browser_use_plan" THEN
        [s EXCEPT !.browserUsePlan = f.plan, !.isGenerating = FALSE]
    ELSE IF f.type = "error" THEN
        [s EXCEPT !.messages = Append(@, Msg(ErrorText(f.message), AI)),
                  !.isGenerating = FALSE]
    ELSE s

\* Dispatch with a final else branch that clears busy
DispatchDefaultClearsBusy(s, f) ==
    IF f = NoFrame THEN s
    ELSE IF f.type = "chat_response" THEN
        [s EXCEPT !.messages = Append(@, Msg(Plain(f.content), AI)),
                  !.browserUsePlan =
                      IF Truthy(f.browser_use_plan) THEN f.browser_use_plan ELSE @,
                  !.isGenerating = FALSE]
    ELSE IF f.type = "browser_use_plan" THEN
        [s EXCEPT !.browserUsePlan = f.plan, !.isGenerating = FALSE]
    ELSE IF f.type = "error" THEN
        [s EXCEPT !.messages = Append(@, Msg(ErrorText(f.message), AI)),
                  !.isGenerating = FALSE]
    ELSE [s EXCEPT !.isGenerating = FALSE]

\* Dispatch with a browser_use_plan branch that also appends a log entry
DispatchPlanAppends(s, f) ==
    IF f = NoFrame THEN s
    ELSE IF f.type = "chat_response" THEN
        [s EXCEPT !.messages = Append(@, Msg(Plain(f.content), AI)),
                  !.browserUsePlan =
                      IF Truthy(f.browser_use_plan) THEN f.browser_use_plan ELSE @,
                  !.isGenerating = FALSE]
    ELSE IF f.type = "browser_use_plan" THEN
        [s EXCEPT !.messages = Append(@, Msg(Plain(f.plan), AI)),
                  !.browserUsePlan = f.plan, !.isGenerating = FALSE]
    ELSE IF f.type = "error" THEN
        [s EXCEPT !.messages = Append(@, Msg(ErrorText(f.message), AI)),
                  !.isGenerating = FALSE]
    ELSE s

\* Dispatch with an error branch that also drops the plan
DispatchErrorClearsPlan(s, f) ==
    IF f = NoFrame THEN s
    ELSE IF f.type = "chat_response" THEN
        [s EXCEPT !.messages = Append(@, Msg(Plain(f.content), AI)),
                  !.browserUsePlan =
                      IF Truthy(f.browser_use_plan) THEN f.browser_use_plan ELSE @,
                  !.isGenerating = FALSE]
    ELSE IF f.type = "browser_use_plan" THEN
        [s EXCEPT !.browserUsePlan = f.plan, !.isGenerating = FALSE]
    ELSE IF f.type = "error" THEN
        [s EXCEPT !.messages = Append(@, Msg(ErrorText(f.message), AI)),
                  !.browserUsePlan = Null,
                  !.isGenerating = FALSE]
    ELSE s

\* the lastMessage effect: what one frame does to the session state
Dispatch(s, f) ==
    IF f = NoFrame THEN s
    ELSE IF f.type = "chat_response" THEN
        [s EXCEPT !.messages = Append(@, Msg(Plain(f.content), AI)),
                  !.browserUsePlan =
                      IF Truthy(f.browser_use_plan) THEN f.browser_use_plan ELSE @,
                  !.isGenerating = FALSE]
    ELSE IF f.type = "browser_use_plan" THEN
        [s EXCEPT !.browserUsePlan = f.plan, !.isGenerating = FALSE]
    ELSE IF f.type = "error" THEN
        [s EXCEPT !.messages = Append(@, Msg(ErrorText(f.message), AI)),
                  !.isGenerating = FALSE]
    ELSE s

\* an error effect that puts its entry at the head of the log
ErrorEffectPrepends(s, err) ==
    IF err # Null
    THEN [s EXCEPT !.messages = <<Msg(ConnectionErrorText(err), AI)>> \o @]
    ELSE s

\* the error effect
ErrorEffect(s, err) ==
    IF err # Null
    THEN [s EXCEPT !.messages = Append(@, Msg(ConnectionErrorText(err), AI))]
    ELSE s

\* sendMessage, before it picks a transport
\* a sendMessage that sets busy and leaves the USER entry to the reply
SendMessageStartBusyOnly(s, message) == [s EXCEPT !.isGenerating = TRUE]

SendMessageStart(s, message) ==
    [s EXCEPT !.messages = Append(@, Msg(Plain(message), USER)),
              !.isGenerating = TRUE]

\* sendMessage over HTTP, once the response body is parsed
HttpChatResponse(s, data) ==
    IF data.needs_more_info
    THEN [s EXCEPT !.messages = Append(@, Msg(Plain(data.content), AI)),
                   !.isGenerating = FALSE]
    ELSE [s EXCEPT !.messages = Append(@, Msg(Plain(data.content), AI)),
                   !.browserUsePlan =
                       IF Truthy(data.browser_use_plan) THEN data.browser_use_plan ELSE @,
                   !.isGenerating = FALSE]

\* a catch block that clears busy and appends nothing
SendMessageCatchSilent(s) == [s EXCEPT !.isGenerating = FALSE]

\* sendMessage's catch block
SendMessageCatch(s) ==
    [s EXCEPT !.messages = Append(@, Msg(NoResponseText, AI)),
              !.isGenerating = FALSE]

\* generateBrowserUse, before it picks a transport
GenerateStart(s) == [s EXCEPT !.isGenerating = TRUE]

\* generateBrowserUse over HTTP, once the response body is parsed
HttpPlanResponse(s, data) ==
    [s EXCEPT !.browserUsePlan = data, !.isGenerating = FALSE]

\* generateBrowserUse's catch block
GenerateCatch(s) == [s EXCEPT !.isGenerating = FALSE]

\* history as the WebSocket branch maps it
RoleHistory(log) ==
    [i \in 1..Len(log) |->
        [role |-> IF log[i].sender = USER THEN "user" ELSE "assistant",
         content |-> log[i].text]]

(* ------------------------- React: commit, effects ---------------------- *)
Terminal(f) == f.type \in {"chat_response", "browser_use_plan", "error"}

\* effects whose error effect runs in every commit, changed error or not
RunEffectsErrorEveryCommit(s, prev, cur) ==
    LET s1 == IF cur.lastMessage # prev.lastMessage THEN Dispatch(s, cur.lastMessage) ELSE s
    IN  ErrorEffect(s1, cur.error)

\* the effects of a commit, in the order the hook declares them; each runs
\* when its dependency differs from the one of the previous commit
RunEffects(s, prev, cur) ==
    LET s1 == IF cur.lastMessage # prev.lastMessage THEN Dispatch(s, cur.lastMessage) ELSE s
    IN  IF cur.error # prev.error THEN ErrorEffect(s1, cur.error) ELSE s1

\* a commit whose dispatch of an error frame also marks the connection as
\* not connected
RenderDropsConnection ==
    /\ mounted
    /\ Snapshot # rendered
    /\ rendered' = Snapshot
    /\ SetSession(RunEffects(Session, rendered, Snapshot))
    /\ inFlight' = IF lastMessage # rendered.lastMessage /\ Terminal(lastMessage)
                   THEN inFlight \ {lastMessage.re} ELSE inFlight
    /\ isConnected' = IF lastMessage # rendered.lastMessage /\ lastMessage.type = "error"
                      THEN FALSE ELSE isConnected
    /\ UNCHANGED <<readyState, lastMessage, error, mounted, panelController, wire,
                   http, calls, unsolicited, testClient>>

\* a commit of the hook state that changed, followed by its effects
Render ==
    /\ mounted
    /\ Snapshot # rendered
    /\ rendered' = Snapshot
    /\ SetSession(RunEffects(Session, rendered, Snapshot))
    /\ inFlight' = IF lastMessage # rendered.lastMessage /\ Terminal(lastMessage)
                   THEN inFlight \ {lastMessage.re} ELSE inFlight
    /\ UNCHANGED <<transport, mounted, panelController, wire, http, calls,
                   unsolicited, testClient>>

(* ------------------------------ operations ----------------------------- *)
SendMessage(message) ==
    /\ mounted
    /\ calls < MaxCalls
    /\ calls' = calls + 1
    /\ SetSession(SendMessageStart(Session, message))
    /\ IF rendered.isConnected
       THEN IF SocketWrites
            THEN /\ wire' = wire \cup {[id |-> calls + 1, type |-> "chat",
                                       message |-> message,
                                       history |-> RoleHistory(rendered.messages),
                                       at |-> Len(messages)]}
                 /\ inFlight' = inFlight \cup {calls + 1}
                 /\ UNCHANGED <<error, http>>
            ELSE /\ error' = ErrNotConnected
                 /\ UNCHANGED <<wire, http, inFlight>>
       ELSE /\ http' = http \cup {[id |-> calls + 1, type |-> "chat",
                                  message |-> message,
                                  history |-> rendered.messages,
                                  at |-> Len(messages)]}
            /\ inFlight' = inFlight \cup {calls + 1}
            /\ UNCHANGED <<error, wire>>
    /\ UNCHANGED <<readyState, isConnected, lastMessage, react, unsolicited, testClient>>

GenerateBrowserUse(actionDescription) ==
    /\ mounted
    /\ calls < MaxCalls
    /\ calls' = calls + 1
    /\ SetSession(GenerateStart(Session))
    /\ IF rendered.isConnected
       THEN IF SocketWrites
            THEN /\ wire' = wire \cup {[id |-> calls + 1, type |-> "browser_use",
                                       action_description |-> actionDescription,
                                       at |-> Len(messages)]}
                 /\ inFlight' = inFlight \cup {calls + 1}
                 /\ UNCHANGED <<error, http>>
            ELSE /\ error' = ErrNotConnected
                 /\ UNCHANGED <<wire, http, inFlight>>
       ELSE /\ http' = http \cup {[id |-> calls + 1, type |-> "browser_use",
                                  action_description |-> actionDescription,
                                  at |-> Len(messages)]}
            /\ inFlight' = inFlight \cup {calls + 1}
            /\ UNCHANGED <<error, wire>>
    /\ UNCHANGED <<readyState, isConnected, lastMessage, react, unsolicited, testClient>>

(* ------------------------- the service: WebSocket ---------------------- *)
ChatData == [content : Contents, needs_more_info : BOOLEAN,
             browser_use_plan : ChatPlans \cup {Absent}]

\* the frames the service answers a written frame with
Replies(e, i) ==
    IF e.type = "chat"
    THEN {Frame(i, e.id, "chat_response", d.content, d.needs_more_info,
                d.browser_use_plan, Absent, Absent) : d \in ChatData}
         \cup {Frame(i, e.id, "error", Absent, FALSE, Absent, Absent, m) : m \in ServerErrors}
    ELSE {Frame(i, e.id, "browser_use_plan", Absent, FALSE, Absent, p, Absent) : p \in Plans}
         \cup {Frame(i, e.id, "error", Absent, FALSE, Absent, Absent, m) : m \in ServerErrors}

\* frames that parse and have no known type: {"type":"unknown_kind"}, and an
\* object without type that has the fields of the known frames
UnknownFrames(i) ==
    {Frame(i, 0, "unknown_kind", Absent, FALSE, Absent, Absent, Absent)}
    \cup {Frame(i, 0, Absent, c, FALSE, p, p, m) :
              c \in Contents, p \in Plans, m \in ServerErrors}

ReceiveReply ==
    /\ readyState = "OPEN"
    /\ \E e \in wire : \E f \in Replies(e, FreshId) :
          /\ wire' = wire \ {e}
          /\ OnMessageParsed(f)
    /\ UNCHANGED <<session, react, http, inFlight, calls, unsolicited, testClient>>

ReceiveUnknown ==
    /\ readyState = "OPEN"
    /\ "unknown" \in unsolicited
    /\ unsolicited' = {}
    /\ \E f \in UnknownFrames(FreshId) : OnMessageParsed(f)
    /\ UNCHANGED <<session, react, wire, http, inFlight, calls, testClient>>

ReceiveUnparsable ==
    /\ readyState = "OPEN"
    /\ "not_json" \in unsolicited
    /\ unsolicited' = {}
    /\ OnMessageUnparsable
    /\ UNCHANGED <<session, react, wire, http, inFlight, calls, testClient>>

(* --------------------------- the service: HTTP ------------------------- *)
\* the fetch of sendMessage call e resolves and its body parses to d
HttpChatResolves(e, d) ==
    /\ e \in http
    /\ e.type = "chat"
    /\ http' = http \ {e}
    /\ inFlight' = inFlight \ {e.id}
    /\ SetSession(HttpChatResponse(Session, d))
    /\ UNCHANGED <<transport, react, wire, calls, unsolicited, testClient>>

HttpChatOk == \E e \in http : \E d \in ChatData : HttpChatResolves(e, d)

\* fetch rejects, the body is null, or res.json() throws
HttpChatFail ==
    \E e \in http :
        /\ e.type = "chat"
        /\ http' = http \ {e}
        /\ inFlight' = inFlight \ {e.id}
        /\ SetSession(SendMessageCatch(Session))
        /\ UNCHANGED <<transport, react, wire, calls, unsolicited, testClient>>

\* the fetch of generateBrowserUse call e resolves and its body parses to p
HttpPlanResolves(e, p) ==
    /\ e \in http
    /\ e.type = "browser_use"
    /\ http' = http \ {e}
    /\ inFlight' = inFlight \ {e.id}
    /\ SetSession(HttpPlanResponse(Session, p))
    /\ UNCHANGED <<transport, react, wire, calls, unsolicited, testClient>>

HttpPlanOk == \E e \in http : \E p \in Plans : HttpPlanResolves(e, p)

HttpPlanFail ==
    \E e \in http :
        /\ e.type = "browser_use"
        /\ http' = http \ {e}
        /\ inFlight' = inFlight \ {e.id}
        /\ SetSession(GenerateCatch(Session))
        /\ UNCHANGED <<transport, react, wire, calls, unsolicited, testClient>>

(* ------------------ useChatbot, the streaming variant ------------------ *)
\* the hook without a socket: the same state, no connection
InitWithoutSocket ==
    /\ readyState = Null
    /\ isConnected = FALSE
    /\ lastMessage = NoFrame
    /\ error = Null
    /\ messages = <<>>
    /\ currMessage = DEFAULT_MESSAGE
    /\ isGenerating = FALSE
    /\ browserUsePlan = Null
    /\ rendered = [isConnected |-> FALSE, lastMessage |-> NoFrame,
                   error |-> Null, messages |-> <<>>]
    /\ mounted = TRUE
    /\ panelController = FALSE
    /\ wire = {}
    /\ http = {}
    /\ inFlight = {}
    /\ calls = 0
    /\ unsolicited = {}
    /\ testClient = TestPage

\* a request leaves the pending ones when its async function has returned
Pending(e) == e.phase \in {"fetch", "read"}

\* request e moves on as f
Advance(e, f) ==
    /\ http' = (http \ {e}) \cup {f}
    /\ inFlight' = IF Pending(f) THEN inFlight ELSE inFlight \ {e.id}
    /\ UNCHANGED <<transport, react, wire, calls, unsolicited, testClient>>

\* setCurrMessage in the read loop
StreamChunkUpdate(s, decodedValue) ==
    [s EXCEPT !.currMessage = [sender |-> @.sender, text |-> @.text \o decodedValue]]

\* the end of the read loop with the empty accumulator taken as a reply
StreamEndAppendsEmptyReply(s, aiMessage) ==
    [s EXCEPT !.messages = Append(@, Msg(aiMessage, AI)),
              !.currMessage = DEFAULT_MESSAGE,
              !.isGenerating = FALSE]

\* after the read loop: the reply or the error entry, the draft reset, finally
StreamEnd(s, aiMessage) ==
    [s EXCEPT !.messages = Append(@, IF aiMessage = Plain("")
                                     THEN Msg(NoResponseText, AI)
                                     ELSE Msg(aiMessage, AI)),
              !.currMessage = DEFAULT_MESSAGE,
              !.isGenerating = FALSE]

\* the catch block, then finally
StreamCatch(s) ==
    [s EXCEPT !.messages = Append(@, Msg(NoResponseText, AI)),
              !.isGenerating = FALSE]

\* res.body === null: the function returns, then finally
StreamNoBody(s) == [s EXCEPT !.isGenerating = FALSE]

StreamSendMessage(message) ==
    /\ mounted
    /\ calls < MaxCalls
    /\ calls' = calls + 1
    /\ SetSession(SendMessageStart(Session, message))
    /\ http' = http \cup {[id |-> calls + 1, type |-> "query", query |-> message,
                           phase |-> "fetch", body |-> <<>>, aiMessage |-> Plain(""),
                           at |-> Len(messages)]}
    /\ inFlight' = inFlight \cup {calls + 1}
    /\ UNCHANGED <<transport, react, wire, unsolicited, testClient>>

\* fetch resolves with a body: the reader is taken
StreamFetchResolves(e) ==
    /\ e.phase = "fetch"
    /\ \E b \in StreamBodies : Advance(e, [e EXCEPT !.phase = "read", !.body = b])
    /\ UNCHANGED session

\* fetch resolves without a body
StreamFetchNoBody(e) ==
    /\ e.phase = "fetch"
    /\ Advance(e, [e EXCEPT !.phase = "nobody"])
    /\ SetSession(StreamNoBody(Session))

\* reader.read() resolves with a chunk
StreamChunk(e) ==
    /\ e.phase = "read"
    /\ e.body # <<>>
    /\ Advance(e, [e EXCEPT !.aiMessage = @ \o Head(e.body), !.body = Tail(@)])
    /\ SetSession(StreamChunkUpdate(Session, Head(e.body)))

\* reader.read() resolves with done
StreamDone(e) ==
    /\ e.phase = "read"
    /\ e.body = <<>>
    /\ Advance(e, [e EXCEPT !.phase = "done"])
    /\ SetSession(StreamEnd(Session, e.aiMessage))

\* fetch or reader.read() rejects
StreamThrows(e) ==
    /\ Pending(e)
    /\ Advance(e, [e EXCEPT !.phase = "failed"])
    /\ SetSession(StreamCatch(Session))

DoStreamSendMessage == \E m \in UserTexts : StreamSendMessage(m)
DoStreamFetchResolves == \E e \in http : StreamFetchResolves(e)
DoStreamFetchNoBody == \E e \in http : StreamFetchNoBody(e)
DoStreamChunk == \E e \in http : StreamChunk(e)
DoStreamDone == \E e \in http : StreamDone(e)
DoStreamThrows == \E e \in http : StreamThrows(e)

StreamNext ==
    \/ DoStreamSendMessage
    \/ DoStreamFetchResolves
    \/ DoStreamFetchNoBody
    \/ DoStreamChunk
    \/ DoStreamDone
    \/ DoStreamThrows
    \/ Unmount

StreamSpec == InitWithoutSocket /\ [][StreamNext]_vars

(* ------------------- useChatbot, the atomic variant -------------------- *)
\* `${v}`: a template literal turns a missing value into the text "undefined"
Template(v) == IF v = Absent THEN Plain("undefined") ELSE Plain(v)

\* the parsed bodies of the atomic endpoint: those of the chat endpoint, and
\* JSON objects without a content field
AtomicData == ChatData \cup [content : {Absent}, needs_more_info : BOOLEAN,
                             browser_use_plan : {Absent}]

\* the response body parsed: one branch appends data.content as it is, the
\* other `${data.content}`, then finally
AtomicResponse(s, data) ==
    [s EXCEPT !.messages = Append(@, IF data.needs_more_info
                                     THEN Msg(Plain(data.content), AI)
                                     ELSE Msg(Template(data.content), AI)),
              !.isGenerating = FALSE]

\* the catch block, then finally
AtomicCatch(s) ==
    [s EXCEPT !.messages = Append(@, Msg(NoResponseText, AI)),
              !.isGenerating = FALSE]

\* res.body === null: the function returns, then finally
AtomicNoBody(s) == [s EXCEPT !.isGenerating = FALSE]

AtomicSendMessage(message) ==
    /\ mounted
    /\ calls < MaxCalls
    /\ calls' = calls + 1
    /\ SetSession(SendMessageStart(Session, message))
    /\ http' = http \cup {[id |-> calls + 1, type |-> "chat", message |-> message,
                           history |-> rendered.messages, phase |-> "fetch",
                           data |-> Null, at |-> Len(messages)]}
    /\ inFlight' = inFlight \cup {calls + 1}
    /\ UNCHANGED <<transport, react, wire, unsolicited, testClient>>

\* fetch resolves and res.json() gives d
AtomicResolves(e, d) ==
    /\ e.phase = "fetch"
    /\ Advance(e, [e EXCEPT !.phase = "done", !.data = d])
    /\ SetSession(AtomicResponse(Session, d))

\* fetch resolves without a body
AtomicFetchNoBody(e) ==
    /\ e.phase = "fetch"
    /\ Advance(e, [e EXCEPT !.phase = "nobody"])
    /\ SetSession(AtomicNoBody(Session))

\* fetch rejects or res.json() throws
AtomicThrows(e) ==
    /\ e.phase = "fetch"
    /\ Advance(e, [e EXCEPT !.phase = "failed"])
    /\ SetSession(AtomicCatch(Session))

DoAtomicSendMessage == \E m \in UserTexts : AtomicSendMessage(m)
DoAtomicResolves == \E e \in http : \E d \in AtomicData : AtomicResolves(e, d)
DoAtomicFetchNoBody == \E e \in http : AtomicFetchNoBody(e)
DoAtomicThrows == \E e \in http : AtomicThrows(e)

AtomicNext ==
    \/ DoAtomicSendMessage
    \/ DoAtomicResolves
    \/ DoAtomicFetchNoBody
    \/ DoAtomicThrows
    \/ Render
    \/ Unmount

AtomicSpec == InitWithoutSocket /\ [][AtomicNext]_vars

(* ------------------- websocket_test.html, the test client -------------- *)
\* the number of WebSocket objects the page creates
MaxSockets == 3

\* the page's script takes a step to c; the hooks are not on this page
TestClientStep(c) ==
    /\ testClient' = c
    /\ UNCHANGED <<transport, session, react, wire, http, inFlight, calls, unsolicited>>

\* the socket the script's variable refers to: the one created last, 0 for
\* null
socket(c) == Len(c.sockets)

\* socket.close(): the closing handshake starts unless the socket is already
\* closing or closed
CloseSocket(sockets, i) ==
    [sockets EXCEPT ![i] = IF @ \in {"CONNECTING", "OPEN"} THEN "CLOSING" ELSE @]

\* connectWebSocket: close the socket there is, create the next one
connectWebSocket(c) ==
    [c EXCEPT !.sockets = Append(IF socket(c) = 0 THEN c.sockets
                                 ELSE CloseSocket(c.sockets, socket(c)),
                                 "CONNECTING")]

\* the open listener
OnOpen(c) == [c EXCEPT !.connectionStatus = "WebSocket: Connected"]

\* an error listener that also retries
OnErrorReconnects(c) ==
    [c EXCEPT !.connectionStatus = "WebSocket: Error", !.errors = @ + 1,
              !.timers = @ + 1]

\* the error listener: console.error and the status text
OnError(c) == [c EXCEPT !.connectionStatus = "WebSocket: Error", !.errors = @ + 1]

\* the close listener: the status text and setTimeout(connectWebSocket, 5000)
OnClose(c) ==
    [c EXCEPT !.connectionStatus = "WebSocket: Disconnected", !.timers = @ + 1]

\* the sections of the formatted plan response, one per truthy field
FormattedResponse(data) ==
    (IF Truthy(data.action_response) THEN <<data.action_response>> ELSE <<>>)
    \o (IF data.max_steps_used # 0 THEN <<data.max_steps_used>> ELSE <<>>)
    \o (IF Truthy(data.step_by_step_plan) THEN <<data.step_by_step_plan>> ELSE <<>>)

\* the message listener, once event.data is parsed
OnMessage(c, data) ==
    IF data.type = "browser_use_plan"
    THEN [c EXCEPT !.actionResponse = FormattedResponse(data)]
    ELSE IF data.type = "chat_response"
    THEN [c EXCEPT !.chatResponse =
                       <<"Message", data.content, data.needs_more_info>>
                       \o (IF Truthy(data.browser_use_plan)
                           THEN <<data.browser_use_plan>> ELSE <<>>),
                   !.chatHistory = Append(@, [role |-> "assistant",
                                              content |-> data.content])]
    ELSE IF data.type = "error"
    THEN [c EXCEPT !.chatResponse = <<"Error", data.message>>]
    ELSE c

\* the frames the service answers a frame of the test client with
TestReplies(e) ==
    {[type |-> "error", message |-> m] : m \in ServerErrors}
    \cup IF e.type = "chat"
         THEN {[type |-> "chat_response", content |-> d.content,
                needs_more_info |-> d.needs_more_info,
                browser_use_plan |-> d.browser_use_plan] : d \in ChatData}
         ELSE {[type |-> "browser_use_plan", action_response |-> r,
                max_steps_used |-> e.max_steps, step_by_step_plan |-> p] :
                   r \in {"done", Absent}, p \in Plans}

\* window load
Load ==
    /\ ~testClient.loaded
    /\ TestClientStep([connectWebSocket(testClient) EXCEPT !.loaded = TRUE])

\* a reconnect timer fires
TimerFires ==
    /\ testClient.timers > 0
    /\ Len(testClient.sockets) < MaxSockets
    /\ TestClientStep(connectWebSocket([testClient EXCEPT !.timers = @ - 1]))

\* the connection of socket i is established
TestSocketOpens(i) ==
    /\ testClient.sockets[i] = "CONNECTING"
    /\ TestClientStep(OnOpen([testClient EXCEPT !.sockets[i] = "OPEN"]))

\* the service starts the closing handshake of socket i
TestSocketClosing(i) ==
    /\ testClient.sockets[i] = "OPEN"
    /\ TestClientStep([testClient EXCEPT !.sockets[i] = "CLOSING"])

\* the connection of socket i is gone: what was written to it is lost
Disconnected(c, i) ==
    [c EXCEPT !.sockets[i] = "CLOSED", !.sent = {e \in @ : e.socket # i}]

\* socket i closes cleanly: the close event
TestSocketCloses(i) ==
    /\ testClient.sockets[i] \in {"OPEN", "CLOSING"}
    /\ TestClientStep(OnClose(Disconnected(testClient, i)))

\* the connection of socket i fails: the error event, then the close event
TestSocketFails(i) ==
    /\ testClient.sockets[i] \in {"CONNECTING", "OPEN", "CLOSING"}
    /\ TestClientStep(OnClose(OnError(Disconnected(testClient, i))))

\* the reply f to frame e arrives
TestReceives(e, f) ==
    /\ e \in testClient.sent
    /\ testClient.sockets[e.socket] = "OPEN"
    /\ TestClientStep(OnMessage([testClient EXCEPT !.sent = @ \ {e}], f))

\* a click on Send Chat
ClickSendChat(message) ==
    /\ testClient.clicks < MaxCalls
    /\ socket(testClient) # 0
    /\ testClient.sockets[socket(testClient)] = "OPEN"
    /\ LET history == Append(testClient.chatHistory,
                             [role |-> "user", content |-> message])
       IN TestClientStep([testClient EXCEPT
              !.clicks = @ + 1,
              !.chatHistory = history,
              !.sent = @ \cup {[id |-> testClient.clicks + 1,
                                socket |-> socket(testClient), type |-> "chat",
                                message |-> message, history |-> history]},
              !.chatResponse = <<"Loading...">>])

\* a click on Send Action
ClickSendAction(actionDescription, maxSteps) ==
    /\ testClient.clicks < MaxCalls
    /\ socket(testClient) # 0
    /\ testClient.sockets[socket(testClient)] = "OPEN"
    /\ TestClientStep([testClient EXCEPT
           !.clicks = @ + 1,
           !.sent = @ \cup {[id |-> testClient.clicks + 1,
                             socket |-> socket(testClient), type |-> "browser_use",
                             action_description |-> actionDescription,
                             max_steps |-> maxSteps]},
           !.actionResponse = <<"Loading...">>])

TestSockets == 1..Len(testClient.sockets)
DoTestSocketOpens == \E i \in TestSockets : TestSocketOpens(i)
DoTestSocketClosing == \E i \in TestSockets : TestSocketClosing(i)
DoTestSocketCloses == \E i \in TestSockets : TestSocketCloses(i)
DoTestSocketFails == \E i \in TestSockets : TestSocketFails(i)
DoTestReceives == \E e \in testClient.sent : \E f \in TestReplies(e) : TestReceives(e, f)
DoClickSendChat == \E m \in UserTexts : ClickSendChat(m)
DoClickSendAction == \E a \in ActionDescriptions : ClickSendAction(a, 10)

TestClientNext ==
    \/ Load
    \/ TimerFires
    \/ DoTestSocketOpens
    \/ DoTestSocketClosing
    \/ DoTestSocketCloses
    \/ DoTestSocketFails
    \/ DoTestReceives
    \/ DoClickSendChat
    \/ DoClickSendAction

TestClientSpec == InitWithoutSocket /\ [][TestClientNext]_vars

(* ----------------------------- specification --------------------------- *)
DoSendMessage == \E m \in UserTexts : SendMessage(m)
DoGenerateBrowserUse == \E a \in ActionDescriptions : GenerateBrowserUse(a)

Next ==
    \/ SocketOpen
    \/ SocketClosing
    \/ SocketClose
    \/ SocketFail
    \/ ReceiveReply
    \/ ReceiveUnknown
    \/ ReceiveUnparsable
    \/ Render
    \/ Unmount
    \/ DoSendMessage
    \/ DoGenerateBrowserUse
    \/ HttpChatOk
    \/ HttpChatFail
    \/ HttpPlanOk
    \/ HttpPlanFail

Spec == Init /\ [][Next]_vars

\* React commits a pending update, the service answers a frame it has read
\* while the socket stays open, and a fetch settles
Fairness ==
    /\ WF_vars(Render)
    /\ WF_vars(ReceiveReply)
    /\ WF_vars(HttpChatOk \/ HttpChatFail)
    /\ WF_vars(HttpPlanOk \/ HttpPlanFail)

FairSpec == Spec /\ Fairness

(* ------------------------- the conversation view ----------------------- *)
\* the page renders BrowserUsePlan with the plan of its controller; past its
\* early return for an empty plan the panel calls useChatbot itself: a second
\* controller, with a socket of its own
PlanPanelRenders ==
    /\ mounted
    /\ Truthy(browserUsePlan)
    /\ ~panelController
    /\ panelController' = TRUE
    /\ UNCHANGED <<transport, session, rendered, mounted, network>>

PageNext == Next \/ PlanPanelRenders

PageSpec == Init /\ [][PageNext]_vars

(* ------------------------------- properties ---------------------------- *)
Last(log) == log[Len(log)]

\* a commit that runs the lastMessage effect on the frame in the hook state
Dispatches == rendered' # rendered /\ lastMessage # rendered.lastMessage
\* a commit that runs the error effect on a non-null error
ReportsError == rendered' # rendered /\ error # rendered.error /\ error # Null

\* C1: busy (isGenerating) is true exactly when one exchange is in flight.
C1_BusyIffOneInFlight == isGenerating <=> Cardinality(inFlight) = 1

\* C2: a sendMessage or generateBrowserUse call made while busy changes
\* nothing and starts no exchange.
C2_CallWhileBusyIsNoOp ==
    [][(calls' = calls + 1 /\ isGenerating)
          => UNCHANGED <<session, wire, http>>]_vars

\* C3: sendMessage called while not busy appends the USER entry, sets busy and
\* starts exactly one exchange: a frame on the socket when the connection
\* status the controller holds is connected, one fetch otherwise.
C3_SendStartsOneExchange ==
    [][\A m \in UserTexts : (SendMessage(m) /\ ~isGenerating) =>
          /\ messages' = Append(messages, Msg(Plain(m), USER))
          /\ isGenerating'
          /\ IF rendered.isConnected
             THEN Cardinality(wire') = Cardinality(wire) + 1 /\ http' = http
             ELSE Cardinality(http') = Cardinality(http) + 1 /\ wire' = wire]_vars

\* C4: once the controller has committed the close of a connection, every
\* frame that was written to it and not answered has been issued again as
\* one fetch.
C4_ClosedSendIsRetried ==
    (mounted /\ readyState = "CLOSED" /\ Snapshot = rendered)
        => \A e \in wire : Cardinality({h \in http : h.id = e.id}) = 1

\* C5: whenever busy is true it becomes false again (or the component
\* unmounts first).
C5_BusyEventuallyClears ==
    (mounted /\ isGenerating) ~> (~mounted \/ ~isGenerating)

\* C6: every failed exchange (a fetch of sendMessage or generateBrowserUse
\* that fails, an error frame) appends exactly one AI error entry.
C6_FailureAppendsOneEntry ==
    [][(/\ mounted
        /\ \/ HttpChatFail
           \/ HttpPlanFail
           \/ (Dispatches /\ lastMessage.type = "error" /\ ~ReportsError))
          => /\ Len(messages') = Len(messages) + 1
             /\ Last(messages').sender = AI]_vars

C9_UnknownFrameChangesNothing ==
    [][/\ ReceiveUnknown => UNCHANGED session
       /\ (Dispatches /\ ~Terminal(lastMessage)) =>
             /\ <<currMessage', isGenerating', browserUsePlan'>>
                   = <<currMessage, isGenerating, browserUsePlan>>
             /\ messages' = IF ReportsError
                            THEN Append(messages, Msg(ConnectionErrorText(error), AI))
                            ELSE messages]_vars

\* a frame without type that has content, plan and message fields has been
\* dispatched while a call was outstanding
C9_Witness ==
    /\ lastMessage = rendered.lastMessage
    /\ lastMessage.type = Absent
    /\ lastMessage.id # 0
    /\ isGenerating
    /\ messages # <<>>
    /\ inFlight # {}

\* C10: a payload that is not JSON sets the transport error only: the
\* connection and its status stay as they are, the session state is untouched
\* and no log entry ever reports the failure.
C10_DecodeFailureNotInLog ==
    /\ [][ReceiveUnparsable => UNCHANGED <<readyState, isConnected, session>>]_vars
    /\ [](\A i \in 1..Len(messages) :
             messages[i].text # ConnectionErrorText(ErrParse))

\* the async function of request e returns in this step
Terminates(e) == Pending(e) /\ \E f \in http' : f.id = e.id /\ ~Pending(f)

\* C11: while a streamed response is read, after each chunk the draft text is
\* the concatenation in arrival order of the chunks of that response so far,
\* and the draft is empty after the step in which the exchange terminates.
C11_DraftIsChunksSoFar ==
    [][mounted =>
          /\ \A e \in http :
                 StreamChunk(e) => currMessage'.text = e.aiMessage \o Head(e.body)
          /\ \A e \in http :
                 Terminates(e) => currMessage'.text = Plain("")]_vars

\* C12: a non-empty draft implies busy; the draft is cleared only in a step
\* that appends an AI entry, and every step in which an exchange terminates
\* leaves the draft empty.
C12_DraftOnlyWhileBusy ==
    /\ [](currMessage.text # Plain("") => isGenerating)
    /\ [][mounted =>
             /\ (currMessage.text # Plain("") /\ currMessage'.text = Plain(""))
                    => /\ Len(messages') = Len(messages) + 1
                       /\ Last(messages').sender = AI
             /\ \A e \in http :
                    Terminates(e) => currMessage'.text = Plain("")]_vars

\* C13: a stream that ends with nothing accumulated appends the entry
\* "Error: No response from server", not an empty AI reply, and leaves the
\* draft empty and busy false.
C13_EmptyStreamIsFailure ==
    [][\A e \in http :
          (mounted /\ StreamDone(e) /\ e.aiMessage = Plain("")) =>
             /\ messages' = Append(messages, Msg(NoResponseText, AI))
             /\ currMessage'.text = Plain("")
             /\ ~isGenerating']_vars

\* the only call's stream has ended with nothing accumulated and the log
\* holds the error entry after the USER entry
C13_Witness ==
    /\ mounted
    /\ calls = 1
    /\ \E e \in http : e.phase = "done" /\ e.aiMessage = Plain("")
    /\ messages = <<Msg(Plain("hi"), USER), Msg(NoResponseText, AI)>>
    /\ currMessage = DEFAULT_MESSAGE
    /\ ~isGenerating

\* this step is the one in which the fetch of the atomic request e resolves
\* with the parsed body d
AtomicResolved(e, d) ==
    /\ e.phase = "fetch"
    /\ \E f \in http' : f.id = e.id /\ f.phase = "done" /\ f.data = d

\* C14: the AI entry appended for an atomic fallback response is
\* {text: content, sender: AI, needsMoreInfo: needs_more_info}; sendMessage("hi")
\* from the empty log answered by {content: "hello", needs_more_info: false}
\* gives the log [{hi, USER}, {hello, AI, needsMoreInfo: false}] and busy false.
C14_AtomicReplyCarriesNeedsMoreInfo ==
    [][\A e \in http : \A d \in ChatData :
          (mounted /\ AtomicResolved(e, d)) =>
             /\ messages' = Append(messages,
                                   [text |-> Plain(d.content), sender |-> AI,
                                    needsMoreInfo |-> d.needs_more_info])
             /\ ~isGenerating']_vars

\* C15: the history a sendMessage call puts on the wire is the whole log as it
\* stood when the call was made, before its own USER entry.
C15_HistoryIsLogBeforeSend ==
    [][\A m \in UserTexts : SendMessage(m) =>
          /\ \A e \in wire' \ wire : e.history = RoleHistory(messages)
          /\ \A e \in http' \ http : e.history = messages]_vars

\* C16: on both transports every history entry of a chat request is a
\* {role, content} pair with role user or assistant.
C16_HistoryIsRolePairs ==
    \A e \in wire \cup http :
        e.type = "chat" =>
            \A i \in 1..Len(e.history) :
                /\ DOMAIN e.history[i] = {"role", "content"}
                /\ e.history[i].role \in {"user", "assistant"}

\* C17: while the component is mounted, a connection that has reached CLOSED
\* is followed by a new connection attempt.
C17_ClosedReconnects ==
    (mounted /\ readyState = "CLOSED")
        ~> (~mounted \/ readyState \in {"CONNECTING", "OPEN"})

\* C18: after the component has unmounted the socket is never OPEN and no
\* handler of it changes the state of the hooks.
C18_TeardownReleasesTransport ==
    /\ [](~mounted => readyState # "OPEN")
    /\ [][~mounted => UNCHANGED <<isConnected, lastMessage, error, session>>]_vars

\* C19: after the component has unmounted no fetch is in flight, and no
\* completion changes log, draft, busy or plan.
C19_TeardownCancelsFetch ==
    /\ [](~mounted => http = {})
    /\ [][~mounted => UNCHANGED session]_vars

\* C20: a frame the socket delivered is replaced as lastMessage only after
\* the lastMessage effect has run on it.
C20_FramesDispatchedInOrder ==
    [][(mounted /\ lastMessage' # lastMessage)
          => lastMessage = rendered.lastMessage]_vars

\* C21: a conversation view has one controller and one connection; showing a
\* plan creates no second controller.
C21_OneControllerPerView == ~panelController

\* C22: generateBrowserUse called while busy changes nothing; otherwise it
\* sets busy, leaves the log alone and starts exactly one exchange, a
\* browser_use frame with the action description when the connection status
\* the controller holds is connected and one plan fetch otherwise; a plan fetch that resolves sets the plan and
\* clears busy.
C22_RequestPlanLikeSend ==
    [][/\ \A a \in ActionDescriptions : GenerateBrowserUse(a) =>
             IF isGenerating
             THEN UNCHANGED <<session, wire, http>>
             ELSE /\ isGenerating'
                  /\ messages' = messages
                  /\ IF rendered.isConnected
                     THEN /\ http' = http
                          /\ \E e \in wire' \ wire :
                                /\ wire' = wire \cup {e}
                                /\ e.type = "browser_use"
                                /\ e.action_description = a
                     ELSE /\ wire' = wire
                          /\ \E e \in http' \ http :
                                /\ http' = http \cup {e}
                                /\ e.type = "browser_use"
                                /\ e.action_description = a
       /\ \A e \in http : \A p \in Plans :
             (mounted /\ HttpPlanResolves(e, p))
                => browserUsePlan' = p /\ ~isGenerating']_vars

\* C23: useWebSocket.sendMessage called while the socket is not OPEN writes
\* no frame, leaves the socket and the connection status as they are and
\* sets the transport error to "WebSocket is not connected", on every call.
C23_SendWhenNotOpen ==
    [][(calls' = calls + 1 /\ rendered.isConnected /\ readyState # "OPEN") =>
          /\ wire' = wire
          /\ readyState' = readyState
          /\ isConnected' = isConnected
          /\ error' = ErrNotConnected]_vars

\* two calls have gone to a socket that was no longer open: nothing was
\* written and the error is set
C23_Witness ==
    /\ mounted
    /\ calls = 2
    /\ rendered.isConnected
    /\ readyState \in {"CLOSING", "CLOSED"}
    /\ wire = {}
    /\ http = {}
    /\ error = ErrNotConnected

\* C24: dispatching a chat_response frame appends the one entry
\* {text: content, sender: AI, needsMoreInfo: needs_more_info}, leaves the
\* draft empty and sets busy to false.
C24_ChatResponseDispatch ==
    [][(Dispatches /\ lastMessage.type = "chat_response" /\ ~ReportsError) =>
          /\ messages' = Append(messages,
                                [text |-> Plain(lastMessage.content), sender |-> AI,
                                 needsMoreInfo |-> lastMessage.needs_more_info])
          /\ currMessage'.text = Plain("")
          /\ ~isGenerating']_vars

\* C25: dispatching a browser_use_plan frame sets the plan to the frame's
\* plan and busy to false and leaves the log and the draft as they are (a
\* commit that also reports a new transport error appends that entry and no
\* more).
C25_PlanFrameDispatch ==
    [][(Dispatches /\ lastMessage.type = "browser_use_plan") =>
          /\ browserUsePlan' = lastMessage.plan
          /\ ~isGenerating'
          /\ currMessage' = currMessage
          /\ messages' = IF ReportsError
                         THEN Append(messages, Msg(ConnectionErrorText(error), AI))
                         ELSE messages]_vars

\* a plan frame has been dispatched in a session whose log holds an exchange
C25_Witness ==
    /\ calls = 2
    /\ lastMessage = rendered.lastMessage
    /\ lastMessage.type = "browser_use_plan"
    /\ browserUsePlan = lastMessage.plan
    /\ ~isGenerating
    /\ Len(messages) = 2

\* C26: dispatching an error frame appends the one entry
\* {text: "Error: " + message, sender: AI}, leaves the draft empty, sets busy
\* to false and leaves the plan as it is (a commit that also reports a new
\* transport error appends that entry after it).
C26_ErrorFrameDispatch ==
    [][(Dispatches /\ lastMessage.type = "error") =>
          /\ messages' =
                 IF ReportsError
                 THEN Append(Append(messages, Msg(ErrorText(lastMessage.message), AI)),
                             Msg(ConnectionErrorText(error), AI))
                 ELSE Append(messages, Msg(ErrorText(lastMessage.message), AI))
          /\ currMessage'.text = Plain("")
          /\ ~isGenerating'
          /\ browserUsePlan' = browserUsePlan]_vars

\* an error frame has been dispatched in a session that holds a plan, and
\* the plan is still there
C26_Witness ==
    /\ calls = 2
    /\ lastMessage = rendered.lastMessage
    /\ lastMessage.type = "error"
    /\ Last(messages) = Msg(ErrorText("boom"), AI)
    /\ ~isGenerating
    /\ Truthy(browserUsePlan)

\* C27: while the component is mounted the hook reports connected only for
\* a socket that is open (or closing); the socket moves CONNECTING to OPEN,
\* OPEN (by way of CLOSING) to CLOSED, and to CLOSED on a failure; connected
\* is reported only by the step that opens the socket, and the step that
\* reports a connection error leaves the socket CLOSED and not connected.
C27_StatusTransitions ==
    /\ [](mounted => (isConnected => readyState \in {"OPEN", "CLOSING"}))
    /\ [][mounted =>
             /\ readyState' # readyState =>
                    <<readyState, readyState'>> \in
                        {<<"CONNECTING", "OPEN">>, <<"OPEN", "CLOSING">>,
                         <<"OPEN", "CLOSED">>, <<"CLOSING", "CLOSED">>,
                         <<"CONNECTING", "CLOSED">>}
             /\ (isConnected' /\ ~isConnected) =>
                    /\ readyState = "CONNECTING"
                    /\ readyState' = "OPEN"
                    /\ error' = Null
             /\ (error' = ErrConnection /\ error # ErrConnection) =>
                    /\ readyState' = "CLOSED"
                    /\ ~isConnected']_vars

\* a connection that was open and committed as connected has failed: the
\* error is set and the hook no longer reports connected
C27_Witness ==
    /\ mounted
    /\ rendered.isConnected
    /\ readyState = "CLOSED"
    /\ error = ErrConnection
    /\ ~isConnected

\* C28: the log is append-only: in every step the log before is a prefix of
\* the log after.
C28_LogAppendOnly ==
    [][/\ Len(messages') >= Len(messages)
       /\ SubSeq(messages', 1, Len(messages)) = messages]_vars

\* the log has grown by a send, by the outcome of an exchange and by a
\* reported connection error
C28_Witness ==
    /\ calls = 2
    /\ Len(messages) >= 4
    /\ messages[1].sender = USER
    /\ messages[2].sender = AI
    /\ Last(messages).text = ConnectionErrorText(ErrConnection)

\* C29: a connection error reported while no exchange is in flight changes
\* none of log, draft, busy and plan.
C29_IdleTransportErrorNotSurfaced ==
    [][(ReportsError /\ error = ErrConnection /\ inFlight = {} /\ ~Dispatches)
          => UNCHANGED session]_vars

\* C30: a fallback response that resolves changes the session state as the
\* dispatch of the chat_response frame with the same content,
\* needs_more_info and browser_use_plan would.
C30_FallbackMatchesFrame ==
    [][\A e \in http : \A d \in ChatData :
          (mounted /\ HttpChatResolves(e, d)) =>
             Session' = Dispatch(Session,
                                 Frame(FreshId, e.id, "chat_response", d.content,
                                       d.needs_more_info, d.browser_use_plan,
                                       Absent, Absent))]_vars

\* C31: an atomic fallback response that parses and has no content field
\* appends the synthetic error entry, not an entry without text, and clears
\* busy.
C31_MissingContentIsFailure ==
    [][\A e \in http : \A d \in AtomicData :
          (mounted /\ d.content = Absent /\ AtomicResolved(e, d)) =>
             /\ messages' = Append(messages, Msg(NoResponseText, AI))
             /\ ~isGenerating']_vars

\* C32: isConnected changes only in a step of the socket (open, close,
\* failure); no call of sendMessage or generateBrowserUse, no commit with its
\* effects and no fetch completion changes it.
C32_StatusOwnedByTransport ==
    [][/\ isConnected' # isConnected =>
             /\ readyState' # readyState
             /\ readyState' \in {"OPEN", "CLOSED"}
             /\ UNCHANGED <<session, rendered, calls, wire, http>>
       /\ (calls' # calls \/ rendered' # rendered \/ http' # http)
             => isConnected' = isConnected]_vars

\* a fetch has failed, a send has gone over the socket and its reply has been
\* dispatched, and the hook still reports the open connection
C32_Witness ==
    /\ mounted
    /\ calls = 2
    /\ isConnected
    /\ readyState = "OPEN"
    /\ Len(messages) = 4
    /\ messages[2].text = NoResponseText
    /\ lastMessage = rendered.lastMessage
    /\ lastMessage.type \in {"chat_response", "error"}
    /\ inFlight = {}

\* C33: whenever sendMessage or generateBrowserUse takes the WebSocket
\* branch the socket is OPEN.
C33_DuplexBranchMeansOpen ==
    [][(calls' = calls + 1 /\ rendered.isConnected) => readyState = "OPEN"]_vars

IsConnectionError(m) ==
    \E e \in {ErrConnection, ErrParse, ErrNotConnected} :
        m.text = ConnectionErrorText(e)

ConnectionErrors(log) ==
    Cardinality({i \in 1..Len(log) : IsConnectionError(log[i])})

\* C34: a commit appends one "Connection error: ... Falling back to HTTP."
\* entry, as the last entry, exactly when the transport error it commits
\* differs from the one of the previous commit and is not null; no other
\* step appends such an entry, so an error set again to the value already
\* committed and an open that resets the error to null append nothing.
C34_ErrorEntryPerChange ==
    [][IF ReportsError
       THEN /\ Last(messages') = Msg(ConnectionErrorText(error), AI)
            /\ ConnectionErrors(messages') = ConnectionErrors(messages) + 1
       ELSE ConnectionErrors(messages') = ConnectionErrors(messages)]_vars

\* two sends were dropped with the same error and committed, and the log
\* holds one Connection error entry
C34_Witness ==
    /\ mounted
    /\ calls = 2
    /\ wire = {}
    /\ http = {}
    /\ error = ErrNotConnected
    /\ Snapshot = rendered
    /\ Len(messages) = 3
    /\ ConnectionErrors(messages) = 1

\* C35: in the streaming variant the text of the AI entry appended when a
\* stream ends with a non-empty reply is the text of the draft as it was
\* just before that step cleared it, also when streams overlap.
C35_ReplyIsDraftShown ==
    [][\A e \in http :
         (mounted /\ StreamDone(e) /\ e.aiMessage # Plain(""))
            => Last(messages').text = currMessage.text]_vars

\* the sendMessage exchanges under way, over the socket or over HTTP
Exchanges == {e \in wire \cup http : e.type \in {"chat", "query"}}

\* the USER entry of exchange e is in the log where sendMessage put it
UserEntryAt(log, e) ==
    /\ e.at < Len(log)
    /\ log[e.at + 1] = Msg(Plain(IF e.type = "query" THEN e.query ELSE e.message), USER)

\* exchange e has not returned yet: the records of the socket variant are
\* dropped when the call returns, those of the other variants keep a phase
UnderWay(e) == IF "phase" \in DOMAIN e THEN Pending(e) ELSE TRUE

\* this step is the one in which the HTTP exchange e returns
Ends(e) == UnderWay(e) /\ \A f \in http' : f.id = e.id => ~UnderWay(f)

\* C36: the USER entry of an exchange is in the log from the step that
\* starts the exchange; every later step keeps the entries the log has and
\* appends after them; the step that ends an HTTP exchange with an entry
\* appends one AI entry as the last one, and the step that delivers the
\* reply frame of a socket exchange leaves the log as it is, so the entry
\* the reply produces at a later commit follows the USER entry.
C36_UserEntryBeforeReply ==
    [][/\ \A e \in Exchanges' : UserEntryAt(messages', e)
       /\ messages' # messages =>
              /\ Len(messages') > Len(messages)
              /\ SubSeq(messages', 1, Len(messages)) = messages
       /\ \A e \in Exchanges \cap http :
              (messages' # messages /\ Ends(e))
                  => /\ Len(messages') = Len(messages) + 1
                     /\ Last(messages').sender = AI
                     /\ e.at + 1 < Len(messages')
       /\ \A e \in Exchanges \cap wire :
              e \notin wire' => messages' = messages /\ lastMessage'.re = e.id]_vars

\* the first exchange has its USER entry and then its AI entry in the log,
\* the second one is under way over the socket with its USER entry third
C36_Witness ==
    /\ mounted
    /\ Len(messages) = 3
    /\ messages[1].sender = USER
    /\ messages[2].sender = AI
    /\ \E e \in Exchanges \cap wire : e.id = 2 /\ e.at = 2 /\ UserEntryAt(messages, e)

\* the sockets of the test client that are connecting or open
LiveSockets == {i \in TestSockets : testClient.sockets[i] \in {"CONNECTING", "OPEN"}}

\* the sockets of the test client whose close event has fired
ClosedSockets == {i \in TestSockets : testClient.sockets[i] = "CLOSED"}

\* C37: in the test client, after every step, at most one socket is
\* CONNECTING or OPEN and at most one reconnect timer is pending, and the
\* error listener would schedule no timer; a step schedules one timer for
\* each socket whose close event fires in it, whether or not an error event
\* came before it, and a timer that fires is used up by the socket it makes.
C37_OneSocketOneTimer ==
    [][/\ Cardinality(LiveSockets') <= 1
       /\ testClient'.timers <= 1
       /\ OnError(testClient').timers = testClient'.timers
       /\ testClient'.timers + (Len(testClient'.sockets) - Len(testClient.sockets))
              = testClient.timers
                + (Cardinality(ClosedSockets') - Cardinality(ClosedSockets))
                + (IF testClient.loaded THEN 0 ELSE 1)]_vars

\* the first socket failed and the second closed cleanly, each was followed
\* by one reconnect, and the third socket is open with no timer pending
C37_Witness ==
    /\ testClient.sockets = <<"CLOSED", "CLOSED", "OPEN">>
    /\ testClient.errors = 1
    /\ testClient.timers = 0
    /\ testClient.connectionStatus = "WebSocket: Connected"

====
